---- MODULE Spec2Model ----
(***************************************************************************)
(* Model of the experiment-analysis engine: the proportion estimator       *)
(* (src/src/ab_test.py), the sequential monitor (src/sequential.py), the   *)
(* covariate adjuster (src/src/cuped.py), the sample-ratio guardrail       *)
(* (src/src/guardrails.py) and the power calculator (src/src/power.py).    *)
(*                                                                         *)
(* Floating-point numbers are modelled in fixed point: an integer v stands *)
(* for the float v / Scale, and every float operation truncates its result *)
(* to that resolution, symmetrically in the sign as IEEE arithmetic does.  *)
(* A float that can be nan or inf is a record [k, v]: k = "num" with the   *)
(* fixed-point value v, k = "nan", or k = "inf" with v the sign.           *)
(***************************************************************************)
EXTENDS Integers, Sequences, FiniteSets, TLC

\* ---------------------------------------------------------------- bounds
\* Largest arm total drawn for ab_proportions.
MaxTotal == 4
\* Largest arm total drawn for one look of sequential_monitor.
MaxLookTotal == 2
\* Largest number of planned looks drawn for sequential_monitor.
MaxLooks == 2
\* Longest outcome series and largest series value drawn for cuped_adjust.
MaxLen == 3
MaxVal == 2
\* Largest small arm size drawn for srm_check.
MaxArm == 12
\* Number of steps the unit interval is cut into for the baseline rate and
\* the minimum detectable effect of sample_size_proportions.
PowerGrid == 10

\* ------------------------------------------------------- float arithmetic
\* Fixed-point resolution: the integer v models the float v / Scale.
Scale == 10000

Abs(x) == IF x < 0 THEN -x ELSE x

\* np.sign on a finite number.
Sign(x) == IF x > 0 THEN 1 ELSE IF x < 0 THEN -1 ELSE 0

\* True division a / b of two integers (b # 0) as a float: the quotient in
\* units of 1/Scale, by long division so that no intermediate overflows.
FDiv(a, b) ==
    LET n == Abs(a)
        d == Abs(b)
        q == (n \div d) * Scale + ((n % d) * Scale) \div d
    IN  Sign(a) * Sign(b) * q

\* Product x * y of two floats, split so that no intermediate overflows.
FMul(x, y) ==
    LET a == Abs(x)
        b == Abs(y)
    IN  Sign(x) * Sign(y) * ((a \div Scale) * b + ((a % Scale) * b) \div Scale)

\* Quotient x / y of two floats (y # 0).
FQuot(x, y) == Sign(x) * Sign(y) * ((Abs(x) * Scale) \div Abs(y))

RECURSIVE ISqrtRec(_, _, _)
ISqrtRec(n, lo, hi) ==
    IF hi - lo <= 1 THEN lo
    ELSE LET mid == (lo + hi) \div 2
         IN  IF mid * mid <= n THEN ISqrtRec(n, mid, hi) ELSE ISqrtRec(n, lo, mid)

\* floor(sqrt(n)) for 0 <= n < 2^31.
ISqrt(n) == ISqrtRec(n, 0, 46341)

Num(v) == [k |-> "num", v |-> v]
NaN == [k |-> "nan", v |-> 0]
Inf(s) == [k |-> "inf", v |-> s]

\* np.sqrt of a float: nan (with a warning, no exception) below zero. A
\* radicand of 20 or more has its root taken at the resolution 100 / Scale,
\* which keeps the intermediate in range.
np_sqrt(x) ==
    IF x < 0 THEN NaN
    ELSE IF x < 20 * Scale THEN Num(ISqrt(x * Scale))
    ELSE Num(100 * ISqrt(x))

\* Python's abs on a float that may be nan or inf.
FAbs(f) == IF f.k = "nan" THEN NaN ELSE IF f.k = "inf" THEN Inf(1) ELSE Num(Abs(f.v))

\* Quotient x / se of a Python float x by a numpy float se: numpy's division
\* returns nan for 0/0 and a signed inf for x/0 (a warning, no exception).
np_divide(x, se) ==
    IF se.k = "nan" THEN NaN
    ELSE IF se.v = 0 THEN (IF x = 0 THEN NaN ELSE Inf(Sign(x)))
    ELSE Num(FQuot(x, se.v))

\* f > c for a float f that may be nan or inf and a finite c: every
\* comparison with nan is False.
FGt(f, c) == IF f.k = "nan" THEN FALSE ELSE IF f.k = "inf" THEN f.v > 0 ELSE f.v > c

\* ------------------------------------------------------ scipy.stats.norm
\* norm.cdf(z) * Scale for z = 0.00, 0.01, ..., 4.00.
NormCdfTable ==
    << 5000, 5040, 5080, 5120, 5160, 5199, 5239, 5279, 5319, 5359,
       5398, 5438, 5478, 5517, 5557, 5596, 5636, 5675, 5714, 5753,
       5793, 5832, 5871, 5910, 5948, 5987, 6026, 6064, 6103, 6141,
       6179, 6217, 6255, 6293, 6331, 6368, 6406, 6443, 6480, 6517,
       6554, 6591, 6628, 6664, 6700, 6736, 6772, 6808, 6844, 6879,
       6915, 6950, 6985, 7019, 7054, 7088, 7123, 7157, 7190, 7224,
       7257, 7291, 7324, 7357, 7389, 7422, 7454, 7486, 7517, 7549,
       7580, 7611, 7642, 7673, 7704, 7734, 7764, 7794, 7823, 7852,
       7881, 7910, 7939, 7967, 7995, 8023, 8051, 8078, 8106, 8133,
       8159, 8186, 8212, 8238, 8264, 8289, 8315, 8340, 8365, 8389,
       8413, 8438, 8461, 8485, 8508, 8531, 8554, 8577, 8599, 8621,
       8643, 8665, 8686, 8708, 8729, 8749, 8770, 8790, 8810, 8830,
       8849, 8869, 8888, 8907, 8925, 8944, 8962, 8980, 8997, 9015,
       9032, 9049, 9066, 9082, 9099, 9115, 9131, 9147, 9162, 9177,
       9192, 9207, 9222, 9236, 9251, 9265, 9279, 9292, 9306, 9319,
       9332, 9345, 9357, 9370, 9382, 9394, 9406, 9418, 9429, 9441,
       9452, 9463, 9474, 9484, 9495, 9505, 9515, 9525, 9535, 9545,
       9554, 9564, 9573, 9582, 9591, 9599, 9608, 9616, 9625, 9633,
       9641, 9649, 9656, 9664, 9671, 9678, 9686, 9693, 9699, 9706,
       9713, 9719, 9726, 9732, 9738, 9744, 9750, 9756, 9761, 9767,
       9772, 9778, 9783, 9788, 9793, 9798, 9803, 9808, 9812, 9817,
       9821, 9826, 9830, 9834, 9838, 9842, 9846, 9850, 9854, 9857,
       9861, 9864, 9868, 9871, 9875, 9878, 9881, 9884, 9887, 9890,
       9893, 9896, 9898, 9901, 9904, 9906, 9909, 9911, 9913, 9916,
       9918, 9920, 9922, 9925, 9927, 9929, 9931, 9932, 9934, 9936,
       9938, 9940, 9941, 9943, 9945, 9946, 9948, 9949, 9951, 9952,
       9953, 9955, 9956, 9957, 9959, 9960, 9961, 9962, 9963, 9964,
       9965, 9966, 9967, 9968, 9969, 9970, 9971, 9972, 9973, 9974,
       9974, 9975, 9976, 9977, 9977, 9978, 9979, 9979, 9980, 9981,
       9981, 9982, 9982, 9983, 9984, 9984, 9985, 9985, 9986, 9986,
       9987, 9987, 9987, 9988, 9988, 9989, 9989, 9989, 9990, 9990,
       9990, 9991, 9991, 9991, 9992, 9992, 9992, 9992, 9993, 9993,
       9993, 9993, 9994, 9994, 9994, 9994, 9994, 9995, 9995, 9995,
       9995, 9995, 9995, 9996, 9996, 9996, 9996, 9996, 9996, 9997,
       9997, 9997, 9997, 9997, 9997, 9997, 9997, 9997, 9997, 9998,
       9998, 9998, 9998, 9998, 9998, 9998, 9998, 9998, 9998, 9998,
       9998, 9998, 9999, 9999, 9999, 9999, 9999, 9999, 9999, 9999,
       9999, 9999, 9999, 9999, 9999, 9999, 9999, 9999, 9999, 9999,
       9999, 9999, 9999, 9999, 9999, 9999, 9999, 9999, 9999, 9999,
       10000, 10000, 10000, 10000, 10000, 10000, 10000, 10000, 10000, 10000,
       10000 >>

\* norm.cdf(z) for a float z >= 0, read at the table's resolution.
norm_cdf(z) ==
    LET zc == z \div (Scale \div 100)
    IN  IF zc >= Len(NormCdfTable) THEN Scale ELSE NormCdfTable[zc + 1]

\* norm.ppf(p) for the probabilities the callers pass (p in units of
\* 1/Scale): 1 - alpha/2 and 1 - alpha for alpha in {0.01, 0.05, 0.10},
\* and 1 - beta for power in {0.1, 0.5, 0.8, 0.9}.
\* No caller draws another probability.
norm_ppf(p) ==
    CASE p = 9950 -> 25758
      [] p = 9900 -> 23263
      [] p = 9750 -> 19600
      [] p = 9500 -> 16449
      [] p = 9000 -> 12816
      [] p = 8000 -> 8416
      [] p = 5000 -> 0
      [] p = 1000 -> -12816
      [] OTHER -> 0

\* The significance levels drawn as inputs, as floats.
Alphas == {100, 500, 1000}

\* ------------------------------------------------ src/src/ab_test.py
\* ab_validate with the check of total_b left out.
ab_validate_total_a_only(success_a, total_a, success_b, total_b) ==
    IF total_a <= 0 THEN "ValueError"
    ELSE IF ~(0 <= success_a /\ success_a <= total_a
              /\ 0 <= success_b /\ success_b <= total_b) THEN "ValueError"
    ELSE "ok"

\* The two validation checks of ab_proportions, in the code's order.
ab_validate(success_a, total_a, success_b, total_b) ==
    IF total_a <= 0 \/ total_b <= 0 THEN "ValueError"
    ELSE IF ~(0 <= success_a /\ success_a <= total_a
              /\ 0 <= success_b /\ success_b <= total_b) THEN "ValueError"
    ELSE "ok"

\* diff = p_b - p_a.
ab_diff(success_a, total_a, success_b, total_b) ==
    FDiv(success_b, total_b) - FDiv(success_a, total_a)

\* The pooled standard error se.
ab_se(success_a, total_a, success_b, total_b) ==
    LET p_pool == FDiv(success_a + success_b, total_a + total_b)
    IN  np_sqrt(FMul(FMul(p_pool, Scale - p_pool),
                     FDiv(1, total_a) + FDiv(1, total_b)))

\* adj_diff: diff with the continuity correction taken off when it is
\* enabled and diff # 0.
ab_adj_diff(success_a, total_a, success_b, total_b, continuity_correction) ==
    LET diff == ab_diff(success_a, total_a, success_b, total_b)
        cc == IF continuity_correction
              THEN FDiv(1, total_a) + FDiv(1, total_b) ELSE 0
    IN  IF continuity_correction /\ diff # 0
        THEN diff - Sign(diff) * cc ELSE diff

\* se > 0, False for nan.
ab_se_positive(se) == se.k = "num" /\ se.v > 0

\* z_stat = adj_diff / se if se > 0 else 0.0.
ab_z_stat(success_a, total_a, success_b, total_b, continuity_correction) ==
    LET se == ab_se(success_a, total_a, success_b, total_b)
    IN  IF ab_se_positive(se)
        THEN FQuot(ab_adj_diff(success_a, total_a, success_b, total_b,
                               continuity_correction), se.v)
        ELSE 0

\* ab_p_val with the one-sided tail, the factor 2 forgotten.
ab_p_val_one_sided(success_a, total_a, success_b, total_b, continuity_correction) ==
    LET se == ab_se(success_a, total_a, success_b, total_b)
        z_stat == ab_z_stat(success_a, total_a, success_b, total_b,
                            continuity_correction)
    IN  IF ab_se_positive(se)
        THEN Scale - norm_cdf(Abs(z_stat)) ELSE Scale

\* p_val = 2 * (1 - norm.cdf(abs(z_stat))) if se > 0 else 1.0.
ab_p_val(success_a, total_a, success_b, total_b, continuity_correction) ==
    LET se == ab_se(success_a, total_a, success_b, total_b)
        z_stat == ab_z_stat(success_a, total_a, success_b, total_b,
                            continuity_correction)
    IN  IF ab_se_positive(se)
        THEN 2 * (Scale - norm_cdf(Abs(z_stat))) ELSE Scale

\* ab_ci_centre with the interval centred on the corrected difference.
ab_ci_centre_adjusted(success_a, total_a, success_b, total_b, continuity_correction) ==
    ab_adj_diff(success_a, total_a, success_b, total_b, continuity_correction)

\* The difference the confidence interval is centred on: diff, whatever the
\* continuity-correction flag.
ab_ci_centre(success_a, total_a, success_b, total_b, continuity_correction) ==
    ab_diff(success_a, total_a, success_b, total_b)

\* ci_low and ci_high = diff -/+ z * se with z = norm.ppf(1 - alpha / 2);
\* sgn is -1 for ci_low and 1 for ci_high.
ab_ci(success_a, total_a, success_b, total_b, alpha, continuity_correction, sgn) ==
    LET centre == ab_ci_centre(success_a, total_a, success_b, total_b,
                               continuity_correction)
        se == ab_se(success_a, total_a, success_b, total_b)
        z == norm_ppf(Scale - alpha \div 2)
    IN  IF se.k = "nan" THEN NaN ELSE Num(centre + sgn * FMul(z, se.v))

\* ab_proportions: the ABResult it returns, or the exception it raises. A
\* zero divisor in the body raises Python's ZeroDivisionError.
ab_proportions(success_a, total_a, success_b, total_b, alpha, continuity_correction) ==
    IF ab_validate(success_a, total_a, success_b, total_b) # "ok"
    THEN [status |-> ab_validate(success_a, total_a, success_b, total_b)]
    ELSE IF total_a = 0 \/ total_b = 0 \/ total_a + total_b = 0
    THEN [status |-> "ZeroDivisionError"]
    ELSE [status |-> "ok",
          metric |-> "proportion",
          lift |-> ab_diff(success_a, total_a, success_b, total_b),
          ci_low |-> ab_ci(success_a, total_a, success_b, total_b, alpha,
                           continuity_correction, -1),
          ci_high |-> ab_ci(success_a, total_a, success_b, total_b, alpha,
                            continuity_correction, 1),
          p_value |-> ab_p_val(success_a, total_a, success_b, total_b,
                               continuity_correction),
          n_a |-> total_a,
          n_b |-> total_b]

\* ------------------------------------------------ src/sequential.py
\* c = norm.ppf(1 - alpha / (2 * np.log(1 + looks))) as a float, for the
\* significance levels drawn and up to seven looks.
pocock_c(alpha, looks) ==
    CASE alpha = 100 -> <<24465, 26082, 26868, 27363, 27714, 27982, 28196>>[looks]
      [] alpha = 500 -> <<17983, 19999, 20962, 21562, 21986, 22308, 22564>>[looks]
      [] alpha = 1000 -> <<14601, 16900, 17983, 18653, 19125, 19482, 19766>>[looks]

\* pocock_boundaries: the list [c] * looks.
pocock_boundaries(alpha, looks) == [k \in 1..looks |-> pocock_c(alpha, looks)]

\* loop_ends without the break on stop.
loop_ends_no_break(stop, look, looks) == look = looks

\* Whether iteration look of the loop over range(1, looks + 1) is the last:
\* the break on stop, or the range exhausted.
loop_ends(stop, look, looks) == stop \/ look = looks

\* z_stat_proportions: no validation; a zero divisor raises
\* ZeroDivisionError, a negative radicand gives se = nan, se = 0 gives
\* nan or inf.
z_stat_proportions(success_a, total_a, success_b, total_b) ==
    IF total_a = 0 \/ total_b = 0 \/ total_a + total_b = 0
    THEN [status |-> "ZeroDivisionError", z |-> NaN]
    ELSE LET p_a == FDiv(success_a, total_a)
             p_b == FDiv(success_b, total_b)
             p_pool == FDiv(success_a + success_b, total_a + total_b)
             se == np_sqrt(FMul(FMul(p_pool, Scale - p_pool),
                                FDiv(1, total_a) + FDiv(1, total_b)))
         IN  [status |-> "ok", z |-> np_divide(p_b - p_a, se)]

\* ------------------------------------------------ src/src/cuped.py
RECURSIVE SeqSum(_)
SeqSum(s) == IF s = <<>> THEN 0 ELSE Head(s) + SeqSum(Tail(s))

\* Sum of the products of the deviations of x and w from their means, times
\* n^2 (kept an integer): n^2 * sum_i (x_i - mean(x)) * (w_i - mean(w)).
DevProd(x, w) ==
    LET n == Len(x)
    IN  SeqSum([i \in 1..n |-> (n * x[i] - SeqSum(x)) * (n * w[i] - SeqSum(w))])

\* np.cov(y, theta, ddof=1): the 2 x 2 covariance matrix of the two series,
\* [[Var(y), Cov(y, theta)], [Cov(y, theta), Var(theta)]], each entry as the
\* integer n^2 * (n - 1) * entry.
np_cov(y, theta) ==
    << <<DevProd(y, y), DevProd(y, theta)>>,
       <<DevProd(theta, y), DevProd(theta, theta)>> >>

\* np.var(theta, ddof=1) as the integer n^2 * (n - 1) * variance.
np_var(theta) == DevProd(theta, theta)

\* A numpy value: its shape and its data (floats); a scalar has shape <<>>.
Scalar(v) == [shape |-> <<>>, data |-> v]
Vector(s) == [shape |-> <<Len(s)>>, data |-> s]
Matrix(m) == [shape |-> <<Len(m), Len(m[1])>>, data |-> m]

\* cuped_adjust: cov is the whole 2 x 2 matrix, so c = cov / var is a 2 x 2
\* matrix; c * theta broadcasts (2, 2) against (n,), which numpy refuses
\* with a ValueError unless n = 2, and for n = 2 yields a 2 x 2 matrix.
cuped_adjust(y, theta) ==
    LET cov == np_cov(y, theta)
        var == np_var(theta)
        n == Len(theta)
    IN  IF var = 0
        THEN [status |-> "ok", y_adj |-> Vector([i \in 1..Len(y) |-> y[i] * Scale]),
              c |-> Scalar(0)]
        ELSE LET c == [j \in 1..2 |-> [k \in 1..2 |-> FDiv(cov[j][k], var)]]
             IN  IF n # 2
                 THEN [status |-> "ValueError"]
                 ELSE [status |-> "ok",
                       y_adj |-> Matrix([j \in 1..2 |-> [k \in 1..2 |->
                                     y[k] * Scale - c[j][k] * theta[k]]]),
                       c |-> Matrix(c)]

\* ------------------------------------------------ src/src/guardrails.py
\* scipy.stats.chisquare on two cells, the expected counts given doubled
\* (exp2[k] = 2 * f_exp[k], an integer for the 50/50 allocation): it raises
\* ValueError when the observed and expected totals differ, and otherwise
\* returns the statistic sum (obs - exp)^2 / exp as a float.
chisquare(f_obs, exp2) ==
    IF 2 * (f_obs[1] + f_obs[2]) # exp2[1] + exp2[2]
    THEN [status |-> "ValueError", stat |-> 0]
    ELSE [status |-> "ok",
          stat |-> FDiv((2 * f_obs[1] - exp2[1]) * (2 * f_obs[1] - exp2[1]), 2 * exp2[1])
                   + FDiv((2 * f_obs[2] - exp2[2]) * (2 * f_obs[2] - exp2[2]), 2 * exp2[2])]

\* The p-value chisquare attaches to the statistic: the chi-square survival
\* function with one degree of freedom, 2 * (1 - norm.cdf(sqrt(stat))). Past
\* the end of the normal table (stat > 16) it is 0 at this resolution.
chi2_sf(stat) ==
    IF stat > 16 * Scale THEN 0
    ELSE 2 * (Scale - norm_cdf(ISqrt(stat * Scale)))

\* srm_flag at the 0.05 level of the primary test.
srm_flag_primary_alpha(p) == p < Scale \div 20

\* p < 0.01
srm_flag(p) == p < Scale \div 100

\* srm_check with the default expected_ratios = (0.5, 0.5).
srm_check(n_a, n_b) ==
    LET total == n_a + n_b
        r == chisquare(<<n_a, n_b>>, <<total, total>>)
    IN  IF r.status # "ok" THEN [status |-> r.status]
        ELSE [status |-> "ok", chi2 |-> r.stat, p_value |-> chi2_sf(r.stat),
              srm_flag |-> srm_flag(chi2_sf(r.stat))]

\* ------------------------------------------------ src/src/power.py
\* np_ceil with the ceiling left out: int(x) truncates.
np_ceil_truncating(x) == x \div Scale

\* int(np.ceil(x)) of a float x >= 0.
np_ceil(x) == (x + Scale - 1) \div Scale

\* num / den of sample_size_proportions, before the rounding.
sample_size_ratio(baseline, mde, alpha, power, two_tailed) ==
    LET p1 == baseline
        p2 == baseline + mde
        beta == Scale - power
        z_alpha == IF two_tailed THEN norm_ppf(Scale - alpha \div 2)
                   ELSE norm_ppf(Scale - alpha)
        z_beta == norm_ppf(Scale - beta)
        p_bar == (p1 + p2) \div 2
        q_bar == Scale - p_bar
        root == FMul(z_alpha, np_sqrt(FMul(2 * p_bar, q_bar)).v)
                + FMul(z_beta, np_sqrt(FMul(p1, Scale - p1) + FMul(p2, Scale - p2)).v)
        num == FMul(root, root)
        den == FMul(p2 - p1, p2 - p1)
    IN  FQuot(num, den)

\* sample_size_proportions: int(np.ceil(num / den)).
sample_size_proportions(baseline, mde, alpha, power, two_tailed) ==
    np_ceil(sample_size_ratio(baseline, mde, alpha, power, two_tailed))

\* ---------------------------------------------------------------- state
VARIABLES
    pc,          \* "idle", "seq_loop" (inside sequential_monitor's loop),
                 \* "returned" or "raised"
    op,          \* the function called
    args,        \* its arguments
    result,      \* what the call returned, or the exception it raised
    i,           \* sequential_monitor: the loop variable
    boundaries,  \* sequential_monitor: the list of boundaries
    decisions,   \* sequential_monitor: the list of decisions
    snap         \* sequential_monitor: the snapshot <<sa, ta, sb, tb>> read by
                 \* the look that ended the call

vars == <<pc, op, args, result, i, boundaries, decisions, snap>>

seq_vars == <<i, boundaries, decisions, snap>>

\* ---------------------------------------------------------------- inputs
Totals == -1..MaxTotal
Successes == -1..(MaxTotal + 1)
LookTotals == 0..MaxLookTotal
LookSuccesses == 0..MaxLookTotal
LookAlphas == {100, 500}
Series == UNION {[1..n -> 0..MaxVal] : n \in 2..MaxLen}
ArmSizes == (1..MaxArm) \cup {5000, 6000}
Tick == Scale \div PowerGrid
Powers == {1000, 5000, 8000, 9000}

Init ==
    /\ pc = "idle"
    /\ op = "none"
    /\ args = <<>>
    /\ result = [status |-> "none"]
    /\ i = 0
    /\ boundaries = <<>>
    /\ decisions = <<>>
    /\ snap = <<>>

\* The state after a call that ran to its end: returned or raised.
Finish(name, a, r) ==
    /\ op' = name
    /\ args' = a
    /\ result' = r
    /\ pc' = IF r.status = "ok" THEN "returned" ELSE "raised"

\* A call of ab_proportions.
CallAbProportions ==
    /\ pc = "idle"
    /\ \E sa \in Successes, ta \in Totals, sb \in Successes, tb \in Totals,
          alpha \in Alphas, cc \in BOOLEAN :
          Finish("ab_proportions",
                 [success_a |-> sa, total_a |-> ta, success_b |-> sb,
                  total_b |-> tb, alpha |-> alpha, continuity_correction |-> cc],
                 ab_proportions(sa, ta, sb, tb, alpha, cc))
    /\ UNCHANGED seq_vars

\* A call of sequential_monitor, up to the first iteration of its loop.
CallSequentialMonitor ==
    /\ pc = "idle"
    /\ \E looks \in 1..MaxLooks, alpha \in LookAlphas :
          /\ op' = "sequential_monitor"
          /\ args' = [looks |-> looks, alpha |-> alpha]
          /\ boundaries' = pocock_boundaries(alpha, looks)
    /\ decisions' = <<>>
    /\ i' = 1
    /\ pc' = "seq_loop"
    /\ UNCHANGED <<result, snap>>

\* One iteration of sequential_monitor's loop, on the snapshots stream_a[i-1]
\* and stream_b[i-1] (each read once, so drawn when read): the z statistic,
\* the decision appended, and the break or the end of the loop with the
\* return that follows it. An exception of z_stat_proportions ends the call.
\* The locals sa, ta, sb, tb are dead once the loop goes on to the next
\* iteration, which overwrites them before any read: snap keeps them only
\* when the call ends in this iteration.
Look ==
    /\ pc = "seq_loop"
    /\ \E sa \in LookSuccesses, ta \in LookTotals,
          sb \in LookSuccesses, tb \in LookTotals :
          LET r == z_stat_proportions(sa, ta, sb, tb)
              z == FAbs(r.z)
              stop == FGt(z, boundaries[i])
              d == [look |-> i, z |-> z, boundary |-> boundaries[i], stop |-> stop]
          IN  IF r.status # "ok"
              THEN /\ pc' = "raised"
                   /\ result' = [status |-> r.status]
                   /\ snap' = <<sa, ta, sb, tb>>
                   /\ UNCHANGED <<i, decisions>>
              ELSE /\ decisions' = Append(decisions, d)
                   /\ IF loop_ends(stop, i, args.looks)
                      THEN /\ pc' = "returned"
                           /\ result' = [status |-> "ok",
                                         decisions |-> Append(decisions, d)]
                           /\ snap' = <<sa, ta, sb, tb>>
                           /\ i' = i
                      ELSE /\ pc' = "seq_loop"
                           /\ i' = i + 1
                           /\ snap' = <<>>
                           /\ UNCHANGED result
    /\ UNCHANGED <<op, args, boundaries>>

\* A call of cuped_adjust on two aligned series.
CallCupedAdjust ==
    /\ pc = "idle"
    /\ \E y \in Series, theta \in Series :
          /\ Len(y) = Len(theta)
          /\ Finish("cuped_adjust", [y |-> y, theta |-> theta],
                    cuped_adjust(y, theta))
    /\ UNCHANGED seq_vars

\* A call of srm_check with the default allocation.
CallSrmCheck ==
    /\ pc = "idle"
    /\ \E n_a \in ArmSizes, n_b \in ArmSizes :
          Finish("srm_check", [n_a |-> n_a, n_b |-> n_b], srm_check(n_a, n_b))
    /\ UNCHANGED seq_vars

\* A call of sample_size_proportions with baseline + mde <= 1.
CallSampleSizeProportions ==
    /\ pc = "idle"
    /\ \E b \in 0..(PowerGrid - 1), m \in 1..PowerGrid, alpha \in Alphas,
          power \in Powers, two_tailed \in BOOLEAN :
          /\ b + m <= PowerGrid
          /\ Finish("sample_size_proportions",
                    [baseline |-> b * Tick, mde |-> m * Tick, alpha |-> alpha,
                     power |-> power, two_tailed |-> two_tailed],
                    [status |-> "ok",
                     n |-> sample_size_proportions(b * Tick, m * Tick, alpha,
                                                   power, two_tailed)])
    /\ UNCHANGED seq_vars

Next ==
    \/ CallAbProportions
    \/ CallSequentialMonitor
    \/ Look
    \/ CallCupedAdjust
    \/ CallSrmCheck
    \/ CallSampleSizeProportions

Spec == Init /\ [][Next]_vars

\* ---------------------------------------------------------------- claims
\* The call in the current state, by function.
IsAb == op = "ab_proportions"
IsSeq == op = "sequential_monitor"
IsCuped == op = "cuped_adjust"
IsSrm == op = "srm_check"
IsPower == op = "sample_size_proportions"

\* The counts of a snapshot <<sa, ta, sb, tb>> pass ab_proportions' validation.
ValidCounts(c) ==
    /\ c[2] > 0 /\ c[4] > 0
    /\ 0 <= c[1] /\ c[1] <= c[2]
    /\ 0 <= c[3] /\ c[3] <= c[4]

\* C1: sequential_monitor returns the looks 1..k in order, k the first look
\* whose |z| is strictly above the boundary (k = looks if none is): no entry
\* before the last has stop set or a z above the boundary, the loop never
\* runs on after a stop, and a list shorter than looks ends with stop set.
C1_LooksUpToFirstStop ==
    IsSeq =>
        /\ Len(decisions) <= args.looks
        /\ \A j \in 1..Len(decisions) :
              /\ decisions[j].look = j
              /\ decisions[j].boundary = pocock_c(args.alpha, args.looks)
              /\ decisions[j].stop = FGt(decisions[j].z, decisions[j].boundary)
        /\ \A j \in 1..(Len(decisions) - 1) : ~decisions[j].stop
        /\ pc = "seq_loop" =>
              /\ i = Len(decisions) + 1
              /\ i <= args.looks
              /\ \A j \in 1..Len(decisions) : ~decisions[j].stop
        /\ pc = "returned" =>
              /\ result.decisions = decisions
              /\ Len(decisions) >= 1
              /\ decisions[Len(decisions)].z
                    = FAbs(z_stat_proportions(snap[1], snap[2], snap[3], snap[4]).z)
              /\ Len(decisions) < args.looks => decisions[Len(decisions)].stop

\* A returned list shorter than the planned looks, ended by a stop on valid
\* counts at its first look.
C1_Witness ==
    /\ IsSeq /\ pc = "returned"
    /\ args.looks = 2 /\ Len(decisions) = 1
    /\ ValidCounts(snap)
    /\ decisions[1].stop

\* C2: ab_proportions raises ValueError exactly when a total is not positive
\* or a success count is outside [0, total]; on every other input it returns
\* (also when the pooled standard error is zero) with n_a = total_a and
\* n_b = total_b.
C2_InvalidInputExactly ==
    IsAb =>
        LET bad == \/ args.total_a <= 0
                   \/ args.total_b <= 0
                   \/ args.success_a < 0 \/ args.success_a > args.total_a
                   \/ args.success_b < 0 \/ args.success_b > args.total_b
        IN  /\ bad => pc = "raised" /\ result.status = "ValueError"
            /\ ~bad => /\ pc = "returned"
                       /\ result.status = "ok"
                       /\ result.n_a = args.total_a
                       /\ result.n_b = args.total_b

\* A valid input with zero pooled standard error (no success in either arm)
\* that returned.
C2_Witness ==
    /\ IsAb /\ pc = "returned"
    /\ args.success_a = 0 /\ args.success_b = 0
    /\ args.total_a # args.total_b
    /\ ab_se(args.success_a, args.total_a, args.success_b, args.total_b) = Num(0)

\* C3: a look of sequential_monitor on malformed counts (a total that is not
\* positive, a success count outside [0, total]) fails with the ValueError of
\* ab_proportions: no decision list is returned and no other error raised.
C3_MalformedLookRaisesInvalidInput ==
    (IsSeq /\ snap # <<>> /\ ~ValidCounts(snap)) =>
        /\ pc = "raised"
        /\ result.status = "ValueError"

\* C4: for valid inputs with success_a = success_b and total_a = total_b,
\* with either setting of the flag, lift = 0, p_value = 1 and
\* ci_low = -ci_high.
C4_EqualArms ==
    (IsAb /\ pc = "returned"
        /\ args.success_a = args.success_b /\ args.total_a = args.total_b) =>
        /\ result.lift = 0
        /\ result.p_value = Scale
        /\ result.ci_low.k = "num" /\ result.ci_high.k = "num"
        /\ result.ci_low.v = -result.ci_high.v

\* Equal arms with a non-zero standard error, the correction enabled.
C4_Witness ==
    /\ IsAb /\ pc = "returned"
    /\ args.success_a = args.success_b /\ args.total_a = args.total_b
    /\ args.continuity_correction
    /\ result.ci_high.v > 0

\* C5: for valid inputs the call with the continuity correction flipped
\* returns the same lift, ci_low, ci_high, n_a and n_b; the interval is
\* diff -/+ z * se on the uncorrected diff; and when diff = 0 the p_value is
\* the same too.
C5_CorrectionLeavesIntervalAlone ==
    (IsAb /\ pc = "returned") =>
        LET other == ab_proportions(args.success_a, args.total_a, args.success_b,
                                    args.total_b, args.alpha,
                                    ~args.continuity_correction)
            diff == FDiv(args.success_b, args.total_b)
                    - FDiv(args.success_a, args.total_a)
            half == FMul(norm_ppf(Scale - args.alpha \div 2),
                         ab_se(args.success_a, args.total_a, args.success_b,
                               args.total_b).v)
        IN  /\ other.status = "ok"
            /\ other.lift = result.lift
            /\ other.ci_low = result.ci_low
            /\ other.ci_high = result.ci_high
            /\ other.n_a = result.n_a
            /\ other.n_b = result.n_b
            /\ result.lift = diff
            /\ result.ci_low = Num(diff - half)
            /\ result.ci_high = Num(diff + half)
            /\ diff = 0 => other.p_value = result.p_value

\* A call with the correction enabled whose p_value the correction changed.
C5_Witness ==
    /\ IsAb /\ pc = "returned"
    /\ args.continuity_correction
    /\ result.lift # 0
    /\ result.p_value # ab_p_val(args.success_a, args.total_a, args.success_b,
                                 args.total_b, FALSE)

\* C6: cuped_adjust returns (y', c) with c one scalar and y' as long as y:
\* when Var(theta) = 0, y' = y and c = 0; otherwise
\* c = Cov(y, theta) / Var(theta) and y'[i] = y[i] - c * theta[i].
C6_ScalarCoefficient ==
    IsCuped =>
        LET y == args.y
            theta == args.theta
            c == FDiv(DevProd(y, theta), DevProd(theta, theta))
        IN  /\ pc = "returned"
            /\ result.c.shape = <<>>
            /\ result.y_adj.shape = <<Len(y)>>
            /\ DevProd(theta, theta) = 0 =>
                  /\ result.c.data = 0
                  /\ result.y_adj.data = [k \in 1..Len(y) |-> y[k] * Scale]
            /\ DevProd(theta, theta) # 0 =>
                  /\ result.c.data = c
                  /\ result.y_adj.data = [k \in 1..Len(y) |-> y[k] * Scale - c * theta[k]]

\* C7: srm_check on positive arm sizes returns, and flags exactly when the
\* chi-square p-value is below 0.01, that is when the statistic
\* (n_a - n_b)^2 / (n_a + n_b) is above the critical value 6.6349;
\* (5000, 5000) is not flagged and (5000, 6000) is.
C7_SrmFlag ==
    IsSrm =>
        /\ pc = "returned"
        /\ result.srm_flag = (result.p_value < Scale \div 100)
        /\ (args.n_a + args.n_b <= 1000) =>
              (result.srm_flag =
                  ((args.n_a - args.n_b) * (args.n_a - args.n_b) * 10000
                      > 66349 * (args.n_a + args.n_b)))
        /\ (args.n_a = 5000 /\ args.n_b = 5000) =>
              (~result.srm_flag /\ result.p_value = Scale)
        /\ (args.n_a = 5000 /\ args.n_b = 6000) => result.srm_flag

\* The flagged example of the specification.
C7_Witness ==
    /\ IsSrm /\ pc = "returned"
    /\ args.n_a = 5000 /\ args.n_b = 6000
    /\ result.srm_flag

\* The sizes sample_size_proportions returns for the larger effects on the
\* grid, the other parameters as in the call of the current state.
LargerEffects ==
    {m \in 1..PowerGrid : m * Tick > args.mde /\ args.baseline + m * Tick <= Scale}

SizeAt(m) ==
    sample_size_proportions(args.baseline, m * Tick, args.alpha, args.power,
                            args.two_tailed)

\* C8 as stated: for any parameters, a larger mde never needs a larger
\* sample, and the size returned is not below the unrounded num / den.
C8_MonotoneForAnyPower ==
    IsPower =>
        /\ \A m \in LargerEffects : SizeAt(m) <= result.n
        /\ result.n * Scale >= sample_size_ratio(args.baseline, args.mde, args.alpha,
                                                 args.power, args.two_tailed)

\* C8 amended: the same for a target power of at least 0.5 (z_beta >= 0; the
\* significance levels drawn all have z_alpha > 0); the rounding up holds
\* for every power.
C8_MonotoneForPowerAtLeastHalf ==
    IsPower =>
        /\ args.power >= Scale \div 2 => \A m \in LargerEffects : SizeAt(m) <= result.n
        /\ result.n * Scale >= sample_size_ratio(args.baseline, args.mde, args.alpha,
                                                 args.power, args.two_tailed)

\* A call at power 0.8 whose size is strictly above the size of a larger
\* effect and strictly above the unrounded ratio.
C8_Witness ==
    /\ IsPower
    /\ args.power = 8000
    /\ \E m \in LargerEffects : SizeAt(m) < result.n
    /\ result.n * Scale > sample_size_ratio(args.baseline, args.mde, args.alpha,
                                            args.power, args.two_tailed)

\* C9: on a valid snapshot the z the monitor records is the absolute value
\* of ab_proportions' test statistic without continuity correction, also when
\* the pooled standard error is zero, where it is the fallback 0 and the look
\* does not stop.
C9_MonitorUsesEstimatorStatistic ==
    (IsSeq /\ snap # <<>> /\ ValidCounts(snap)) =>
        /\ pc = "returned"
        /\ decisions[Len(decisions)].z
              = Num(Abs(ab_z_stat(snap[1], snap[2], snap[3], snap[4], FALSE)))
        /\ ab_se(snap[1], snap[2], snap[3], snap[4]) = Num(0) =>
              /\ decisions[Len(decisions)].z = Num(0)
              /\ ~decisions[Len(decisions)].stop

\* C10: with a non-zero pooled standard error, the corrected difference keeps
\* the sign of diff (or is zero), is no larger in magnitude, and the p_value
\* with the correction is not below the p_value without it.
C10_CorrectionIsConservative ==
    (IsAb /\ pc = "returned"
        /\ ab_se_positive(ab_se(args.success_a, args.total_a, args.success_b,
                                args.total_b))) =>
        LET diff == ab_diff(args.success_a, args.total_a, args.success_b, args.total_b)
            adj == ab_adj_diff(args.success_a, args.total_a, args.success_b,
                               args.total_b, TRUE)
        IN  /\ adj = 0 \/ Sign(adj) = Sign(diff)
            /\ Abs(adj) <= Abs(diff)
            /\ ab_p_val(args.success_a, args.total_a, args.success_b, args.total_b, TRUE)
                  >= ab_p_val(args.success_a, args.total_a, args.success_b,
                              args.total_b, FALSE)
====
